---- MODULE Spec2Model ----
(***************************************************************************)
(* Model of generic_batch_organiser.py: organize_files_into_batches scans  *)
(* a directory for text/image pairs, slices the sorted pair list into      *)
(* batches, transfers every batch into a numbered folder and writes one    *)
(* combined text file per batch.                                           *)
(*                                                                         *)
(* A file name is a record [base, ext].  The content of a file is a        *)
(* sequence of integers: the text file of base k holds <<k>>, the image    *)
(* file of base k holds <<-k>>, and the separator string                   *)
(* "\nTRP_PAGEBREAK\n" is <<0>>.  The source directory is the set of the   *)
(* names present in it (the program never writes into an existing source   *)
(* file); a batch folder is a function from names to contents.  A run      *)
(* starts in a directory that holds no batch folder yet.                   *)
(***************************************************************************)
EXTENDS Integers, Sequences, FiniteSets, TLC

\* ---------------------------------------------------------------- bounds
\* Bases 1..MaxBase may occur as files of the small directories.
MaxBase == 3
\* Fully paired directories have up to MaxMany pairs (two-digit batch numbers).
MaxMany == 21
\* batch_size ranges over -MaxNegBatch..MaxBatch.
MaxBatch == 3
MaxNegBatch == 2

\* ------------------------------------------------------- run-wide options
text_ext == "txt"
image_ext == "jpg"
folder_prefix == "Batch"
PAGEBREAK == <<0>>

Name(b, e) == [base |-> b, ext |-> e]

\* What a file of the source directory holds.
Content(f) == IF f.ext = text_ext THEN <<f.base>> ELSE <<0 - f.base>>

\* The values of --combined-name: a name no source file has, the name of
\* the text file of base 1 and the name of the image file of base 1.
CombinedNames == {Name(0, text_ext), Name(1, text_ext), Name(1, image_ext)}

VARIABLES
    source_exists,  \* Path(source_dir).exists()
    source,         \* names of the files in the source directory
    folders,        \* batch folder name -> (file name -> content)
    batch_size, move_files, combined_name,   \* arguments
    pc,             \* position in organize_files_into_batches
    file_pairs,     \* list of (text_file, image_file)
    num_batches, batch_num, batch_pairs,
    pair_idx,       \* position of the transfer loop in batch_pairs (1-based)
    report,         \* what the run printed last / the exception it raised
    source0,        \* the source directory as it was when the run began
    batches         \* the batch_pairs of the batches processed so far

vars == <<source_exists, source, folders, batch_size, move_files, combined_name,
          pc, file_pairs, num_batches, batch_num, batch_pairs, pair_idx, report,
          source0, batches>>

\* ------------------------------------------------------- pure helpers
Min(a, b) == IF a < b THEN a ELSE b
Max(a, b) == IF a > b THEN a ELSE b

\* Python's // for a non-zero divisor: the floor of the quotient.
FloorDiv(a, b) == IF b > 0 THEN a \div b ELSE (0 - a) \div (0 - b)

\* Python's list[s:e]: a negative index counts from the end, both are clamped.
PySlice(seq, s, e) ==
    LET n == Len(seq)
        lo == IF s < 0 THEN Max(n + s, 0) ELSE Min(s, n)
        hi == IF e < 0 THEN Max(n + e, 0) ELSE Min(e, n)
    IN  SubSeq(seq, lo + 1, hi)

\* source_path.glob("*" + ext)
Glob(dir, ext) == {f \in dir : f.ext = ext}

\* sorted(...) of a set of paths of one extension: ascending by name.
RECURSIVE Sorted(_)
Sorted(S) ==
    IF S = {} THEN <<>>
    ELSE LET m == CHOOSE f \in S : \A g \in S : f.base <= g.base
         IN  <<m>> \o Sorted(S \ {m})

\* text_file.with_suffix(ext)
WithSuffix(f, ext) == Name(f.base, ext)

\* Faulty variant: the pairing does not look for the image file.
ImageExistsUnchecked(dir, t) == TRUE

\* image_file.exists()
ImageExists(dir, t) == WithSuffix(t, image_ext) \in dir

\* The loop of lines 34-39 over text_files.
RECURSIVE PairUp(_, _)
PairUp(dir, text_files) ==
    IF text_files = <<>> THEN <<>>
    ELSE LET t == Head(text_files)
             rest == PairUp(dir, Tail(text_files))
         IN  IF ImageExists(dir, t)
             THEN <<(<<t, WithSuffix(t, image_ext)>>)>> \o rest
             ELSE rest

FilePairs(dir) == PairUp(dir, Sorted(Glob(dir, text_ext)))

\* Faulty variant: the batch count rounds down.
NumBatchesFloor(P, b) == FloorDiv(P, b)

\* Faulty variant: the slice stops one pair early.
EndIdxShort(start, b, P) == Min(start + b - 1, P)

NumBatches(P, b) == FloorDiv(P + b - 1, b)
StartIdx(n, b) == n * b
EndIdx(start, b, P) == Min(start + b, P)
BatchPairs(pairs, n, b) ==
    PySlice(pairs, StartIdx(n, b), EndIdx(StartIdx(n, b), b, Len(pairs)))

\* ------------------------------------------------------------ folder names
DigitChars == <<"0", "1", "2", "3", "4", "5", "6", "7", "8", "9">>

RECURSIVE Digits(_)
Digits(n) ==
    IF n < 10 THEN <<DigitChars[n + 1]>>
    ELSE Digits(n \div 10) \o <<DigitChars[(n % 10) + 1]>>

\* f"{n:02d}" for n >= 0
Format02d(n) ==
    LET d == Digits(n) IN IF Len(d) < 2 THEN <<"0">> \o d ELSE d

\* Faulty variant: the folder number is not padded.
FolderNameUnpadded(n) == <<folder_prefix, "_">> \o Digits(n + 1)

\* f"{folder_prefix}_{batch_num + 1:02d}"
FolderName(n) == <<folder_prefix, "_">> \o Format02d(n + 1)

\* ------------------------------------------------------------ file system
EmptyDir == [f \in {} |-> <<>>]

\* batch_folder.mkdir(exist_ok=True)
Mkdir(fs, d) == IF d \in DOMAIN fs THEN fs ELSE (d :> EmptyDir) @@ fs

\* A file written (created or overwritten) in folder d.
WriteFile(fs, d, f, c) == [fs EXCEPT ![d] = (f :> c) @@ fs[d]]

\* ------------------------------------------------------------------- Init
SmallDirs ==
    {T \cup I : T \in SUBSET {Name(k, text_ext) : k \in 1..MaxBase},
                I \in SUBSET {Name(k, image_ext) : k \in 1..MaxBase}}

ManyDirs ==
    {{Name(k, e) : k \in 1..n, e \in {text_ext, image_ext}} :
        n \in (MaxBase + 1)..MaxMany}

Init ==
    /\ \/ /\ source_exists = TRUE
          /\ source \in SmallDirs
          /\ batch_size \in (0 - MaxNegBatch)..MaxBatch
          /\ combined_name \in CombinedNames
       \/ /\ source_exists = TRUE
          /\ source \in ManyDirs
          /\ batch_size \in 1..MaxBatch
          /\ combined_name = Name(0, text_ext)
       \/ /\ source_exists = FALSE
          /\ source = {}
          /\ batch_size \in 1..MaxBatch
          /\ combined_name = Name(0, text_ext)
    /\ move_files \in BOOLEAN
    /\ folders = [d \in {} |-> EmptyDir]
    /\ pc = "start"
    /\ file_pairs = <<>>
    /\ num_batches = 0
    /\ batch_num = 0
    /\ batch_pairs = <<>>
    /\ pair_idx = 1
    /\ report = "none"
    /\ source0 = source
    /\ batches = <<>>

\* ---------------------------------------------------------------- actions
\* Lines 21-25: the source directory does not exist.
ReturnMissingDir ==
    /\ pc = "start"
    /\ ~source_exists
    /\ pc' = "returned"
    /\ report' = "missing_dir"
    /\ UNCHANGED <<source_exists, source, folders, batch_size, move_files,
                   combined_name, file_pairs, num_batches, batch_num,
                   batch_pairs, pair_idx, source0, batches>>

\* Faulty variant: the first batch folder is made before the pair list is looked at.
ReturnNoPairsAfterMkdir ==
    /\ pc = "start"
    /\ source_exists
    /\ FilePairs(source) = <<>>
    /\ file_pairs' = <<>>
    /\ folders' = Mkdir(folders, <<folder_prefix, "_", "0", "1">>)
    /\ pc' = "returned"
    /\ report' = "no_pairs"
    /\ UNCHANGED <<source_exists, source, batch_size, move_files,
                   combined_name, num_batches, batch_num, batch_pairs,
                   pair_idx, source0, batches>>

\* Lines 27-45: the scan finds no complete pair.
ReturnNoPairs ==
    /\ pc = "start"
    /\ source_exists
    /\ FilePairs(source) = <<>>
    /\ file_pairs' = <<>>
    /\ pc' = "returned"
    /\ report' = "no_pairs"
    /\ UNCHANGED <<source_exists, source, folders, batch_size, move_files,
                   combined_name, num_batches, batch_num, batch_pairs,
                   pair_idx, source0, batches>>

\* Line 48 with batch_size = 0: the division raises ZeroDivisionError.
RaiseZeroDivision ==
    /\ pc = "start"
    /\ source_exists
    /\ FilePairs(source) # <<>>
    /\ batch_size = 0
    /\ file_pairs' = FilePairs(source)
    /\ pc' = "raised"
    /\ report' = "ZeroDivisionError"
    /\ UNCHANGED <<source_exists, source, folders, batch_size, move_files,
                   combined_name, num_batches, batch_num, batch_pairs,
                   pair_idx, source0, batches>>

\* Lines 27-54: the scan finds pairs, num_batches is computed and the loop
\* over range(num_batches) is entered (or skipped, when it is empty).
Plan ==
    /\ pc = "start"
    /\ source_exists
    /\ FilePairs(source) # <<>>
    /\ batch_size # 0
    /\ file_pairs' = FilePairs(source)
    /\ num_batches' = NumBatches(Len(file_pairs'), batch_size)
    /\ batch_num' = 0
    /\ pc' = IF num_batches' > 0 THEN "mkdir" ELSE "done"
    /\ report' = IF num_batches' > 0 THEN "scanned" ELSE "complete"
    /\ UNCHANGED <<source_exists, source, folders, batch_size, move_files,
                   combined_name, batch_pairs, pair_idx, source0, batches>>

\* Lines 55-68: the batch folder is created and the batch's slice taken.
BeginBatch ==
    /\ pc = "mkdir"
    /\ folders' = Mkdir(folders, FolderName(batch_num))
    /\ batch_pairs' = BatchPairs(file_pairs, batch_num, batch_size)
    /\ pair_idx' = 1
    /\ pc' = IF batch_pairs' = <<>> THEN "concat" ELSE "text"
    /\ UNCHANGED <<source_exists, source, batch_size, move_files, combined_name,
                   file_pairs, num_batches, batch_num, report, source0, batches>>

\* shutil.move / shutil.copy2 of one file into the batch folder.
SourceAfter(dir, f, move) == IF move THEN dir \ {f} ELSE dir
FoldersAfter(fs, d, f) == WriteFile(fs, d, f, Content(f))

\* Lines 72-73 / 76: the text file of the current pair.
TransferText ==
    /\ pc = "text"
    /\ LET t == batch_pairs[pair_idx][1] IN
         /\ folders' = FoldersAfter(folders, FolderName(batch_num), t)
         /\ source' = SourceAfter(source, t, move_files)
    /\ pc' = "image"
    /\ UNCHANGED <<source_exists, batch_size, move_files, combined_name,
                   file_pairs, num_batches, batch_num, batch_pairs, pair_idx,
                   report, source0, batches>>

\* Lines 74 / 77: the image file of the current pair; then the next pair,
\* or the concatenation when the batch is through.
TransferImage ==
    /\ pc = "image"
    /\ LET g == batch_pairs[pair_idx][2] IN
         /\ folders' = FoldersAfter(folders, FolderName(batch_num), g)
         /\ source' = SourceAfter(source, g, move_files)
    /\ pair_idx' = pair_idx + 1
    /\ pc' = IF pair_idx < Len(batch_pairs) THEN "text" ELSE "concat"
    /\ UNCHANGED <<source_exists, batch_size, move_files, combined_name,
                   file_pairs, num_batches, batch_num, batch_pairs,
                   report, source0, batches>>

\* Faulty variant: the exception is caught and reported, and the run goes on with
\* the concatenation of the batch.
TransferFailsCaught ==
    /\ pc \in {"text", "image"}
    /\ pc' = "concat"
    /\ report' = IF pc = "text" THEN "TransferError(text)" ELSE "TransferError(image)"
    /\ UNCHANGED <<source_exists, source, folders, batch_size, move_files,
                   combined_name, file_pairs, num_batches, batch_num,
                   batch_pairs, pair_idx, source0, batches>>

\* A transfer raises (I/O error, permission, disk full); nothing catches it.
\* The file stays in the source directory.  The destination is untouched
\* (a failed rename, a copy that could not open it), truncated (a copy that
\* broke off) or complete (copy2 failing in copystat, move failing in the
\* unlink after its fallback copy).
TransferFails ==
    /\ pc \in {"text", "image"}
    /\ LET f == batch_pairs[pair_idx][IF pc = "text" THEN 1 ELSE 2] IN
         \/ folders' = folders
         \/ folders' = WriteFile(folders, FolderName(batch_num), f, <<>>)
         \/ folders' = WriteFile(folders, FolderName(batch_num), f, Content(f))
    /\ pc' = "raised"
    /\ report' = IF pc = "text" THEN "TransferError(text)" ELSE "TransferError(image)"
    /\ UNCHANGED <<source_exists, source, batch_size, move_files, combined_name,
                   file_pairs, num_batches, batch_num, batch_pairs, pair_idx,
                   source0, batches>>

\* Lines 84-91: what the loop writes to outfile.  A read of the combined
\* file itself (a member named like it) sees what has reached the disk so
\* far: the first `flushed` items of the buffered output.
RECURSIVE ConcatOut(_, _, _, _, _, _)
ConcatOut(dir, combined, pairs, i, out, flushed) ==
    IF i > Len(pairs) THEN out
    ELSE LET txt == pairs[i][1]
             content == IF txt = combined
                        THEN SubSeq(out, 1, Min(flushed, Len(out)))
                        ELSE dir[txt]
             sep == IF i - 1 < Len(pairs) - 1 THEN PAGEBREAK ELSE <<>>
         IN  ConcatOut(dir, combined, pairs, i + 1, out \o content \o sep, flushed)

\* Lines 81-91: open(combined_file, 'w') truncates, the loop writes, the
\* close of the with block puts the whole output in the file.
Concatenated(fs, d, combined, pairs, flushed) ==
    LET opened == WriteFile(fs, d, combined, <<>>)
    IN  WriteFile(opened, d, combined,
                  ConcatOut(opened[d], combined, pairs, 1, <<>>, flushed))

\* Lines 79-93, and the step of the loop of line 54.
Concatenate ==
    /\ pc = "concat"
    /\ \E flushed \in 0..(2 * Len(batch_pairs)) :
         folders' = Concatenated(folders, FolderName(batch_num), combined_name,
                                 batch_pairs, flushed)
    /\ batches' = Append(batches, batch_pairs)
    /\ batch_num' = batch_num + 1
    /\ pc' = IF batch_num + 1 < num_batches THEN "mkdir" ELSE "done"
    /\ report' = IF batch_num + 1 < num_batches THEN report ELSE "complete"
    /\ UNCHANGED <<source_exists, source, batch_size, move_files, combined_name,
                   file_pairs, num_batches, batch_pairs, pair_idx, source0>>

Next ==
    \/ ReturnMissingDir
    \/ ReturnNoPairs
    \/ RaiseZeroDivision
    \/ Plan
    \/ BeginBatch
    \/ TransferText
    \/ TransferImage
    \/ TransferFails
    \/ Concatenate

Spec == Init /\ [][Next]_vars

\* ------------------------------------------------- vocabulary of the claims
RECURSIVE Flatten(_)
Flatten(ss) == IF ss = <<>> THEN <<>> ELSE Head(ss) \o Flatten(Tail(ss))

\* The least n with n * b >= P, for b >= 1.
CeilDiv(P, b) == CHOOSE n \in 0..P : n * b >= P /\ (n - 1) * b < P

IsDigit(c) == \E i \in 1..10 : DigitChars[i] = c
DigitValue(c) == (CHOOSE i \in 1..10 : DigitChars[i] = c) - 1

RECURSIVE Decimal(_)
Decimal(ds) ==
    IF ds = <<>> THEN 0
    ELSE Decimal(SubSeq(ds, 1, Len(ds) - 1)) * 10 + DigitValue(ds[Len(ds)])

\* {prefix}_{NN}: at least two digits, a leading zero only as padding.
WellNamed(d) ==
    /\ Len(d) >= 4
    /\ d[1] = folder_prefix
    /\ d[2] = "_"
    /\ \A i \in 3..Len(d) : IsDigit(d[i])
    /\ Len(d) > 4 => d[3] # "0"

FolderNumber(d) == Decimal(SubSeq(d, 3, Len(d)))

\* The files of the pair list in transfer order: t1, i1, t2, i2, ...
FilesOf(pairs) == Flatten(pairs)

Range(seq) == {seq[i] : i \in DOMAIN seq}

HasCopy(d, f) ==
    /\ d \in DOMAIN folders
    /\ f \in DOMAIN folders[d]
    /\ folders[d][f] = Content(f)

InSomeFolder(f) == \E d \in DOMAIN folders : f \in DOMAIN folders[d]

\* The contents joined with the separator between consecutive ones.
RECURSIVE Join(_)
Join(cs) ==
    IF cs = <<>> THEN <<>>
    ELSE IF Len(cs) = 1 THEN cs[1]
    ELSE cs[1] \o PAGEBREAK \o Join(Tail(cs))

Count(seq, x) == Cardinality({i \in DOMAIN seq : seq[i] = x})

ValidRun == source_exists /\ batch_size >= 1 /\ file_pairs # <<>>

\* ------------------------------------------------------------------ claims

\* C1: for a positive batch size, the batches the run processed are the
\* slices [k*batchSize, min((k+1)*batchSize, P)) of the pair list; in
\* batch-number order they concatenate to the whole pair list in its sorted
\* order, and no pair is in two batches.
C1_BatchesPartitionPairs ==
    (pc = "done" /\ ValidRun) =>
        /\ Flatten(batches) = file_pairs
        /\ \A k \in DOMAIN batches :
             batches[k] = SubSeq(file_pairs, (k - 1) * batch_size + 1,
                                 Min(k * batch_size, Len(file_pairs)))
        /\ \A j, k \in DOMAIN batches :
             j # k => Range(batches[j]) \cap Range(batches[k]) = {}

C1_Witness ==
    /\ pc = "done" /\ ValidRun
    /\ batch_size >= 2
    /\ Len(batches) >= 2
    /\ Len(batches[Len(batches)]) < batch_size

\* C2: a completed run on valid inputs leaves exactly ceil(P / batchSize)
\* batch folders, numbered 1..ceil(P / batchSize) without gaps, each named
\* {prefix}_{NN} with NN padded to at least two digits; at no time does a
\* folder with a higher number exist.
C2_FolderCountAndNames ==
    ValidRun =>
        /\ \A d \in DOMAIN folders :
             /\ WellNamed(d)
             /\ FolderNumber(d) \in 1..CeilDiv(Len(file_pairs), batch_size)
        /\ pc = "done" =>
             /\ {FolderNumber(d) : d \in DOMAIN folders}
                  = 1..CeilDiv(Len(file_pairs), batch_size)
             /\ Cardinality(DOMAIN folders)
                  = CeilDiv(Len(file_pairs), batch_size)

C2_Witness ==
    /\ pc = "done" /\ ValidRun
    /\ Cardinality(DOMAIN folders) >= 10
    /\ Len(file_pairs) % batch_size # 0

\* C3: for P >= 1 and batchSize >= 1 every batch but the last has exactly
\* batchSize pairs, the last has P mod batchSize pairs (batchSize when P is
\* a multiple of batchSize), and no batch is empty.
C3_BatchSizes ==
    (pc = "done" /\ ValidRun) =>
        LET P == Len(file_pairs)
            n == Len(batches)
        IN  /\ n >= 1
            /\ \A k \in 1..(n - 1) : Len(batches[k]) = batch_size
            /\ Len(batches[n]) =
                 IF P % batch_size = 0 THEN batch_size ELSE P % batch_size
            /\ \A k \in 1..n : Len(batches[k]) >= 1

C3_Witness ==
    /\ pc = "done" /\ ValidRun
    /\ Len(batches) >= 3
    /\ Len(file_pairs) % batch_size # 0
    /\ batch_size >= 2

\* C4: for a positive batch size, the combined-text file of every processed
\* batch holds the contents of the batch's text files in batch order with
\* the separator only between consecutive documents: pairs_in_batch - 1
\* separators, none before the first document and none after the last.
C4_CombinedText ==
    ValidRun =>
        \A k \in DOMAIN batches :
            LET d == FolderName(k - 1)
                docs == [i \in DOMAIN batches[k] |-> Content(batches[k][i][1])]
            IN  /\ combined_name \in DOMAIN folders[d]
                /\ folders[d][combined_name] = Join(docs)
                /\ Count(folders[d][combined_name], PAGEBREAK[1])
                     = Len(batches[k]) - 1

\* The same statement for a combined-output name that no member of the
\* batch has.
CombinedTextOfDistinctName ==
    ValidRun =>
        \A k \in DOMAIN batches :
            (\A i \in DOMAIN batches[k] : batches[k][i][1] # combined_name) =>
                LET d == FolderName(k - 1)
                    docs == [i \in DOMAIN batches[k] |->
                                Content(batches[k][i][1])]
                IN  /\ combined_name \in DOMAIN folders[d]
                    /\ folders[d][combined_name] = Join(docs)
                    /\ Count(folders[d][combined_name], PAGEBREAK[1])
                         = Len(batches[k]) - 1

\* C5: with at least one pair, a batch size <= 0 makes the run fail with an
\* error before any folder is created or any file transferred; the run
\* never reports completion.
C5_RejectsNonPositiveBatchSize ==
    (batch_size <= 0 /\ file_pairs # <<>>) =>
        /\ pc = "raised"
        /\ DOMAIN folders = {}
        /\ source = source0

\* C6: after a completed run on valid inputs, in copy mode every file of
\* every pair is still in the source directory and a copy of it is in its
\* batch folder; in move mode it is gone from the source directory and is
\* in exactly one batch folder, that of its batch.
C6_CopyKeepsMoveRemoves ==
    (pc = "done" /\ ValidRun) =>
        \A k \in DOMAIN batches : \A i \in DOMAIN batches[k] : \A j \in 1..2 :
            LET f == batches[k][i][j]
                d == FolderName(k - 1)
            IN  /\ HasCopy(d, f)
                /\ move_files =>
                     /\ f \notin source
                     /\ \A e \in DOMAIN folders : f \in DOMAIN folders[e] => e = d
                /\ ~move_files => f \in source

\* The same statement for a combined-output name that no file of a pair has.
CopyKeepsMoveRemovesForDistinctName ==
    (pc = "done" /\ ValidRun /\ combined_name \notin Range(FilesOf(file_pairs)))
        => C6_CopyKeepsMoveRemoves

\* C7: a run that returns early (missing source directory, or no complete
\* pair, also when text files exist) leaves the file system as it was: no
\* batch folder, no file copied or moved, no combined-text file.
C7_EarlyReturnChangesNothing ==
    pc = "returned" =>
        /\ DOMAIN folders = {}
        /\ source = source0
        /\ report \in {"missing_dir", "no_pairs"}
        /\ batches = <<>>

C7_Witness ==
    /\ pc = "returned"
    /\ source_exists
    /\ Glob(source0, text_ext) # {}
    /\ Glob(source0, image_ext) # {}

\* C8: the pair list is exactly the text files of the source directory
\* whose image file exists, in ascending name order; a text file without
\* its image is in no pair, its content reaches no batch folder and no
\* combined-text file, and it does not keep the other pairs from being
\* processed.
Unmatched ==
    {t \in Glob(source0, text_ext) : WithSuffix(t, image_ext) \notin source0}

C8_PairsAreTheMatchedTextFiles ==
    (source_exists /\ pc # "start") =>
        /\ \A i \in DOMAIN file_pairs :
             /\ file_pairs[i][1] \in Glob(source0, text_ext)
             /\ file_pairs[i][2] = WithSuffix(file_pairs[i][1], image_ext)
             /\ file_pairs[i][2] \in source0
        /\ \A t \in Glob(source0, text_ext) \ Unmatched :
             \E i \in DOMAIN file_pairs : file_pairs[i][1] = t
        /\ \A i, j \in DOMAIN file_pairs :
             i < j => file_pairs[i][1].base < file_pairs[j][1].base
        /\ \A t \in Unmatched :
             /\ t \in source
             /\ \A d \in DOMAIN folders : \A f \in DOMAIN folders[d] :
                  Count(folders[d][f], t.base) = 0
        /\ (pc = "returned") => Glob(source0, text_ext) = Unmatched
        /\ (pc = "done" /\ batch_size >= 1) =>
             \A i \in DOMAIN file_pairs : InSomeFolder(file_pairs[i][1])

C8_Witness ==
    /\ pc = "done" /\ ValidRun
    /\ \E t \in Unmatched : \E i \in DOMAIN file_pairs :
         file_pairs[i][1].base > t.base

\* C9: a transfer failure ends the run where it happens, with no rollback.
\* Every file transferred before it is where it was put (in move mode the
\* text file of the failing pair is in the batch folder and its image in
\* the source directory), the failing file and every later file are still
\* in the source directory, no later file is in any folder, no later batch
\* folder exists, and the failing batch has no combined-text file.
TransferErrors == {"TransferError(text)", "TransferError(image)"}

\* The place of the failing file in FilesOf(file_pairs).
FailedAt ==
    2 * (batch_num * batch_size + pair_idx - 1)
      + (IF report = "TransferError(text)" THEN 1 ELSE 2)

C9_TransferFailureStopsTheRun ==
    report \in TransferErrors =>
        LET files == FilesOf(file_pairs)
            here == FolderName(batch_num)
            folderOf(n) == FolderName(((n - 1) \div 2) \div batch_size)
        IN  /\ pc = "raised"
            /\ batch_size >= 1
            /\ FailedAt \in DOMAIN files
            /\ Len(batches) = batch_num
            /\ DOMAIN folders = {FolderName(k) : k \in 0..batch_num}
            /\ \A n \in 1..(FailedAt - 1) :
                 /\ files[n] \in DOMAIN folders[folderOf(n)]
                 /\ folderOf(n) = here => HasCopy(here, files[n])
                 /\ files[n] \in source <=> ~move_files
            /\ \A n \in FailedAt..Len(files) : files[n] \in source
            /\ \A n \in (FailedAt + 1)..Len(files) : ~InSomeFolder(files[n])
            /\ \A f \in DOMAIN folders[here] :
                 /\ f \in Range(files)
                 /\ Count(folders[here][f], PAGEBREAK[1]) = 0
                 /\ Len(folders[here][f]) <= 1
            /\ \A k \in 0..(batch_num - 1) :
                 combined_name \in DOMAIN folders[FolderName(k)]

C9_Witness ==
    /\ report = "TransferError(image)"
    /\ move_files
    /\ batch_num >= 1
    /\ pair_idx >= 2
    /\ batch_pairs[pair_idx][1] \in DOMAIN folders[FolderName(batch_num)]
    /\ batch_pairs[pair_idx][2] \in source

\* C10: concatenating a batch changes only the combined-output file of its
\* folder: whatever the combined-output name, every text and image file
\* transferred into the folder holds after the concatenation what it held
\* after its transfer, and the combined file holds each member's full
\* content.
C10_ConcatenationKeepsMembers ==
    ValidRun =>
        \A k \in DOMAIN batches :
            LET d == FolderName(k - 1) IN
            /\ \A i \in DOMAIN batches[k] : \A j \in 1..2 :
                 folders[d][batches[k][i][j]] = Content(batches[k][i][j])
            /\ \A i \in DOMAIN batches[k] :
                 Count(folders[d][combined_name], batches[k][i][1].base) = 1

====
